---------------------------- MODULE Spec2Model ----------------------------
(***************************************************************************)
(* PhishShield client: the scan-orchestration controller of                *)
(* frontend/script.js (history kept in memory, variant "local") and of     *)
(* its sibling source file (history fetched from the server, variant       *)
(* "remote").                                                              *)
(*                                                                         *)
(* One step of the model is one run-to-completion task of the browser's    *)
(* event loop: a handler from its entry to its first await, or the         *)
(* continuation of an async function from one await to the next.  The      *)
(* states of the model are therefore the states a user can observe.        *)
(***************************************************************************)
EXTENDS Integers, Sequences, FiniteSets, TLC

(***************************************************************************)
(* Bounds of the model.                                                    *)
(***************************************************************************)
MaxScans == 1        \* classification requests dispatched per page load
MaxCalls == 2        \* checkUrl activations that may be suspended at once
MaxReentrant == 2    \* requests per page load when checkUrl is re-entered
MaxTimers == 1       \* pending auto-dismiss timers
MaxPushes == 11      \* scans per page load in the specification of the history
MaxShares == 1       \* share handlers that may await a screenshot at once
MaxShareScans == 2   \* requests per page load where results are shared
MaxLen == 5          \* tokens of an input to the validation

(***************************************************************************)
(* Program constants.                                                      *)
(***************************************************************************)
HISTORY_LIMIT == 10  \* "Keep only last 10 items"

MSG_EMPTY == "Please enter a URL to check"
MSG_INVALID == "Please enter a valid URL"
MSG_FAILED == "Failed to check URL"
MSG_GENERIC == "An error occurred while checking the URL"
MSG_CLEARED == "History cleared successfully"
MSG_SCREENSHOT == "Failed to generate screenshot"
\* messages the platform gives to the exceptions it raises itself
MSG_FETCH == "Failed to fetch"
MSG_SYNTAX == "Unexpected token < in JSON at position 0"
MSG_NULL == "Cannot read properties of null"
MSG_DOM == "Cannot set properties of null"
\* String(value) of a detail that is a list of objects
MSG_OBJECT == "[object Object]"

(***************************************************************************)
(* Strings typed into the URL field are sequences of tokens: the words     *)
(* "https" (a special scheme), "x" and "y" (any other run of letters),     *)
(* and the characters ":", "/" and " ".                                    *)
(***************************************************************************)
RECURSIVE TrimStart(_)
TrimStart(s) ==
    IF s # <<>> /\ Head(s) = " " THEN TrimStart(Tail(s)) ELSE s

RECURSIVE TrimEnd(_)
TrimEnd(s) ==
    IF s # <<>> /\ s[Len(s)] = " " THEN TrimEnd(SubSeq(s, 1, Len(s) - 1)) ELSE s

\* String.prototype.trim
Trim(s) == TrimEnd(TrimStart(s))

\* index of the first token of s that is in set cs, or Len(s) + 1
RECURSIVE IndexOf(_, _, _)
IndexOf(s, cs, i) ==
    IF i > Len(s) THEN Len(s) + 1
    ELSE IF s[i] \in cs THEN i
    ELSE IndexOf(s, cs, i + 1)

RECURSIVE DropSlashes(_)
DropSlashes(s) ==
    IF s # <<>> /\ Head(s) = "/" THEN DropSlashes(Tail(s)) ELSE s

\* the host of an authority: the tokens before the first "/"
HostOf(s) == SubSeq(s, 1, IndexOf(s, {"/"}, 1) - 1)

\* the authority of a URL: a host without a space, and after a ":" a port,
\* which must be digits; the tokens have none, so the ":" ends the authority,
\* and it needs a host before it
AuthorityParses(authority, special) ==
    LET colon == IndexOf(authority, {":"}, 1)
        host == SubSeq(authority, 1, colon - 1)
    IN  /\ \A k \in 1..Len(authority) : authority[k] # " "
        /\ colon <= Len(authority) => (colon = Len(authority) /\ host # <<>>)
        /\ special => host # <<>>

\* new URL(string) with no base URL, as the URL standard parses it: an
\* absolute URL needs a scheme (letters up to the first ":"); a special
\* scheme needs a host, whatever the number of slashes before it; any other
\* scheme takes an authority after "//", or else an opaque path.
UrlParses(string) ==
    LET s == Trim(string)
        colon == IndexOf(s, {":", "/", " "}, 1)
        scheme == SubSeq(s, 1, colon - 1)
        rest == SubSeq(s, colon + 1, Len(s))
    IN  /\ colon <= Len(s)
        /\ s[colon] = ":"
        /\ scheme # <<>>
        /\ IF scheme = <<"https">>
           THEN AuthorityParses(HostOf(DropSlashes(rest)), TRUE)
           ELSE IF Len(rest) >= 2 /\ rest[1] = "/" /\ rest[2] = "/"
           THEN AuthorityParses(HostOf(SubSeq(rest, 3, Len(rest))), FALSE)
           ELSE TRUE

isValidUrl(string) == UrlParses(string)

\* the tokens of an input, and every input of up to n of them
Tokens == {"https", "x", ":", "/", " "}

InputsUpTo(n) == UNION {[1..k -> Tokens] : k \in 0..n}

\* what the user may type into the field
RawInputs ==
    { <<" ">>,
      <<"x", "/", "y">>,
      <<"https", ":", "/", "/", "x">>,
      <<" ", "https", ":", "/", "/", "y", " ">> }

(***************************************************************************)
(* Responses.  A body is what response.json() is asked to parse: text      *)
(* that is no JSON ("bad"), the JSON value null, or a JSON object whose    *)
(* members isPhishing and detail are each absent ("undef") or present.     *)
(***************************************************************************)
Body(parse, isPhishing, detail) ==
    [parse |-> parse, isPhishing |-> isPhishing, detail |-> detail]

OkBodies ==
    { Body("bad", "undef", "undef"),
      Body("null", "undef", "undef"),
      Body("object", "undef", "undef"),
      Body("object", "true", "undef"),
      Body("object", "false", "undef") }

ErrorBodies ==
    { Body("bad", "undef", "undef"),
      Body("null", "undef", "undef"),
      Body("object", "undef", "undef"),
      Body("object", "undef", "rate limited"),
      Body("object", "undef", ""),
      Body("object", "undef", "list") }

\* JavaScript truthiness of a member of a parsed body
Truthy(v) == v \notin {"undef", "false", ""}


(***************************************************************************)
(* State.                                                                  *)
(***************************************************************************)
VARIABLES
    variant,         \* "local": frontend/script.js; "remote": its sibling file
    page,            \* what the hosting page provides: which elements the markup
                     \* has and whether localStorage is accessible
    phase,           \* "loading" before DOMContentLoaded, then "ready"
    localStorage,    \* the two persisted flags
    dom,             \* the elements the controller reads and writes
    statistics,      \* let statistics = { totalScans, safeUrls, phishingUrls }
    sessionHistory,  \* let sessionHistory = []   (variant "local")
    clock,           \* source of the timestamps of history records
    timers,          \* pending setTimeout callbacks of showError, oldest first
    calls,           \* suspended activations of checkUrl
    nreq,            \* classification requests dispatched since the page load
    serverHistory,   \* the history the server keeps (variant "remote")
    fetches,         \* history requests in flight, in the order of issue
    shares,          \* suspended activations of the share handler
    scans,           \* history variable: what has been applied for each scan
    last             \* history variable: the task that ran last

vars == <<variant, page, phase, localStorage, dom, statistics, sessionHistory,
          clock, timers, calls, nreq, serverHistory, fetches, shares, scans,
          last>>

Slots == 1..MaxCalls

IdleCall == [pc |-> "idle", url |-> <<>>, id |-> 0, ok |-> FALSE,
             stored |-> "undef"]

\* the lowest free activation slot
FreeSlot == CHOOSE i \in Slots : calls[i].pc = "idle" /\
                \A j \in Slots : calls[j].pc = "idle" => i <= j

InFlight == {i \in Slots : calls[i].pc \in {"fetch", "json"}}

NoScans == [resultScan |-> 0, resultUrl |-> <<>>, counted |-> {},
            recorded |-> {}, succeeded |-> {}]

NoBody == Body("bad", "undef", "undef")

Step(op, outcome) ==
    [op |-> op, outcome |-> outcome, locked |-> FALSE, unlocks |-> 0,
     body |-> NoBody, url |-> <<>>]

(***************************************************************************)
(* The view: the small functions that show and hide elements.              *)
(***************************************************************************)
showLoading(d) == [d EXCEPT !.loading = TRUE]

hideLoading(d) == [d EXCEPT !.loading = FALSE]

hideResult(d) == [d EXCEPT !.result = FALSE]

\* hideError.  The text and the styling stay in the hidden element, where
\* nothing reads them: showError writes both before it shows the element
\* again.  The model keeps them only while the message is shown.
hideError(d) ==
    [d EXCEPT !.error = FALSE, !.errorText = "", !.errorType = "error"]

\* showError: the message and its styling
showError(d, message, type) ==
    [d EXCEPT !.error = TRUE, !.errorText = message, !.errorType = type]

\* showError: "Auto-hide success messages after 3 seconds".  The callback is
\* queued and nothing ever removes it; current tells whether the message it
\* was set for is still the last one shown.
showErrorTimers(ts, type) ==
    LET old == [k \in 1..Len(ts) |-> [current |-> FALSE]]
    IN  IF type = "success" THEN Append(old, [current |-> TRUE]) ELSE old

\* a variant of displayHistory without the branch for an empty history
displayHistoryAlways(d, history) ==
    [d EXCEPT !.historyList = history, !.historyShown = TRUE]

\* displayHistory, given that the markup has the list element
displayHistory(d, history) ==
    IF Len(history) = 0
    THEN [d EXCEPT !.historyShown = FALSE]
    ELSE [d EXCEPT !.historyList = history, !.historyShown = TRUE]

\* displayHistory throws at historyList.innerHTML when the element is missing
displayHistoryThrows(history) == Len(history) > 0 /\ ~page.historyList

\* displayResult, first statement: the container is shown
displayResultContainer(d) == [d EXCEPT !.result = TRUE]

\* displayResult, the rest: the verdict
displayResultVerdict(d, isPhishing) ==
    [d EXCEPT !.resultTitle =
        IF Truthy(isPhishing) THEN "Phishing URL Detected!" ELSE "Safe URL"]

displayResult(d, isPhishing) ==
    displayResultVerdict(displayResultContainer(d), isPhishing)

\* "Disable input and button while checking"
lockControls(d) ==
    [d EXCEPT !.inputDisabled = TRUE, !.buttonDisabled = TRUE,
              !.buttonLabel = "checking"]

\* finally: "Re-enable input and button"
unlockControls(d) ==
    [d EXCEPT !.inputDisabled = FALSE, !.buttonDisabled = FALSE,
              !.buttonLabel = "default"]

(***************************************************************************)
(* Statistics and history.                                                 *)
(***************************************************************************)
\* a variant of updateStatistics with the two branches exchanged
updateStatisticsSwapped(st, isPhishing) ==
    [totalScans |-> st.totalScans + 1,
     safeUrls |-> IF Truthy(isPhishing) THEN st.safeUrls + 1 ELSE st.safeUrls,
     phishingUrls |->
        IF Truthy(isPhishing) THEN st.phishingUrls ELSE st.phishingUrls + 1]

\* a variant of updateStatistics that counts a phishing URL as safe as well
updateStatisticsBoth(st, isPhishing) ==
    [totalScans |-> st.totalScans + 1,
     safeUrls |-> st.safeUrls + 1,
     phishingUrls |->
        IF Truthy(isPhishing) THEN st.phishingUrls + 1 ELSE st.phishingUrls]

\* updateStatistics: the counters (the writes to the page follow them)
updateStatistics(st, isPhishing) ==
    [totalScans |-> st.totalScans + 1,
     safeUrls |-> IF Truthy(isPhishing) THEN st.safeUrls ELSE st.safeUrls + 1,
     phishingUrls |->
        IF Truthy(isPhishing) THEN st.phishingUrls + 1 ELSE st.phishingUrls]

\* updateStatistics throws at totalScansElement.textContent when the
\* statistics elements are missing from the page
updateStatisticsThrows == ~page.statsElements

\* a variant of addToSessionHistory that pushes where it should unshift
addToSessionHistoryAtEnd(h, url, isPhishing, timestamp) ==
    LET pushed == h \o <<[url |-> url, isPhishing |-> isPhishing,
                          timestamp |-> timestamp]>>
    IN  IF Len(pushed) > HISTORY_LIMIT
        THEN SubSeq(pushed, 1, HISTORY_LIMIT)
        ELSE pushed

\* addToSessionHistory: unshift, then "Keep only last 10 items"
addToSessionHistory(h, url, isPhishing, timestamp) ==
    LET pushed == <<[url |-> url, isPhishing |-> isPhishing,
                     timestamp |-> timestamp]>> \o h
    IN  IF Len(pushed) > HISTORY_LIMIT
        THEN SubSeq(pushed, 1, HISTORY_LIMIT)
        ELSE pushed

\* history.slice(0, 10) of loadHistory (variant "remote")
recentHistory(history) ==
    SubSeq(history, 1, IF Len(history) < HISTORY_LIMIT THEN Len(history)
                       ELSE HISTORY_LIMIT)

(***************************************************************************)
(* Page load.                                                              *)
(***************************************************************************)
\* the elements as the markup ships them; the script decides nothing here
Markup(loading, error, result, historyShown) ==
    [inputValue |-> <<>>, inputDisabled |-> FALSE, buttonDisabled |-> FALSE,
     buttonLabel |-> "default", loading |-> loading, error |-> error,
     errorText |-> "", errorType |-> "error", result |-> result,
     resultTitle |-> "", historyShown |-> historyShown, historyList |-> <<>>,
     bannerHidden |-> FALSE, overlay |-> FALSE]

CompletePage == [statsElements |-> TRUE, historyList |-> TRUE, storage |-> TRUE]

\* the pages that lack at most one of the three
Pages ==
    {p \in [statsElements : BOOLEAN, historyList : BOOLEAN, storage : BOOLEAN] :
        Cardinality({f \in {"statsElements", "historyList", "storage"} : ~p[f]}) <= 1}

\* the script's own state when the DOMContentLoaded handler starts
NoStatistics == [totalScans |-> 0, safeUrls |-> 0, phishingUrls |-> 0]

NoCalls == [i \in Slots |-> IdleCall]

Fresh ==
    /\ phase = "loading"
    /\ \E l, e, r, h \in BOOLEAN : dom = Markup(l, e, r, h)
    /\ statistics = NoStatistics
    /\ sessionHistory = <<>>
    /\ clock = 1
    /\ timers = <<>>
    /\ calls = NoCalls
    /\ nreq = 0
    /\ fetches = <<>>
    /\ shares = 0
    /\ scans = NoScans
    /\ last = Step("load", "")

InitWith(pages) ==
    /\ variant \in {"local", "remote"}
    /\ page \in pages
    /\ localStorage \in [announcementClosed : BOOLEAN, statsViewed : {FALSE}]
    /\ serverHistory = <<>>
    /\ Fresh

Init == InitWith({CompletePage})

\* a variant of checkAnnouncementBanner that does not read the flag
checkAnnouncementBannerShows(d) == d

\* checkAnnouncementBanner
checkAnnouncementBanner(d) ==
    IF localStorage.announcementClosed
    THEN [d EXCEPT !.bannerHidden = TRUE]
    ELSE d

\* localStorage.getItem throws when the page may not use the storage
checkAnnouncementBannerThrows == ~page.storage

\* a history request as loadHistory issues it (variant "remote")
HistoryRequest(owner, scan) ==
    [owner |-> owner, scan |-> scan, state |-> "sent", ok |-> FALSE,
     history |-> <<>>]

\* initializePage, up to its await: the three calls inside the array passed to
\* Promise.all run one after the other, and a throw of one ends the sequence
initializePage ==
    LET d0 == hideResult(hideError(hideLoading(dom)))
        d1 == IF variant = "local" THEN displayHistory(d0, sessionHistory) ELSE d0
        outcome == IF updateStatisticsThrows THEN "updateStatistics threw"
                   ELSE IF checkAnnouncementBannerThrows
                   THEN "checkAnnouncementBanner threw"
                   ELSE "ok"
    IN  /\ phase = "loading"
        /\ phase' = "ready"
        /\ fetches' = IF variant = "remote"
                      THEN Append(fetches, HistoryRequest(0, 0))
                      ELSE fetches
        /\ statistics' = updateStatistics(statistics, "undef")
        /\ dom' = IF outcome = "ok" THEN checkAnnouncementBanner(d1) ELSE d1
        /\ last' = Step("initializePage", outcome)
        /\ UNCHANGED <<variant, page, shares, localStorage, sessionHistory, clock,
                       timers, calls, nreq, serverHistory, scans>>

(***************************************************************************)
(* checkUrl, from its entry to the await of fetch.                         *)
(***************************************************************************)
\* a variant of the validation branches that runs after the controls are
\* disabled, and returns past the finally that enables them
checkUrlRejectsLocked(message) ==
    /\ dom' = showError(lockControls(dom), message, "error")
    /\ timers' = showErrorTimers(timers, "error")
    /\ last' = Step("checkUrl", "invalid")
    /\ UNCHANGED <<variant, page, shares, phase, localStorage, statistics,
                   sessionHistory, clock, calls, nreq, serverHistory, fetches,
                   scans>>

\* showError(...); return;   of the two validation branches
checkUrlRejects(message) ==
    /\ dom' = showError(dom, message, "error")
    /\ timers' = showErrorTimers(timers, "error")
    /\ last' = Step("checkUrl", "invalid")
    /\ UNCHANGED <<variant, page, shares, phase, localStorage, statistics,
                   sessionHistory, clock, calls, nreq, serverHistory, fetches,
                   scans>>

\* the try block up to   await fetch(PREDICT_URL, ...)
checkUrlDispatches(url, limit) ==
    /\ nreq < limit
    /\ \E i \in Slots : calls[i].pc = "idle"
    /\ dom' = hideResult(hideError(showLoading(lockControls(dom))))
    /\ calls' = [calls EXCEPT ![FreeSlot] =
                    [IdleCall EXCEPT !.pc = "fetch", !.url = url, !.id = nreq + 1]]
    /\ nreq' = nreq + 1
    /\ last' = [Step("checkUrl", "dispatched") EXCEPT !.locked = TRUE]
    /\ UNCHANGED <<variant, page, shares, phase, localStorage, statistics,
                   sessionHistory, clock, timers, serverHistory, fetches, scans>>

checkUrl(limit) ==
    LET url == Trim(dom.inputValue)
    IN  IF url = <<>> THEN checkUrlRejects(MSG_EMPTY)
        ELSE IF ~isValidUrl(url) THEN checkUrlRejects(MSG_INVALID)
        ELSE checkUrlDispatches(url, limit)

\* the user types into the field, which a disabled field does not allow
TypeUrlFrom(inputs) ==
    /\ phase = "ready"
    /\ ~dom.inputDisabled
    /\ \E raw \in inputs :
        /\ raw # dom.inputValue
        /\ dom' = [dom EXCEPT !.inputValue = raw]
    /\ last' = Step("other", "")
    /\ UNCHANGED <<variant, page, shares, phase, localStorage, statistics,
                   sessionHistory, clock, timers, calls, nreq, serverHistory,
                   fetches, scans>>

TypeUrl == TypeUrlFrom(RawInputs)

\* checkButton.addEventListener('click', checkUrl): a disabled button
\* receives no click
ClickCheckButtonUpTo(limit) ==
    /\ phase = "ready"
    /\ ~dom.buttonDisabled
    /\ checkUrl(limit)

ClickCheckButton == ClickCheckButtonUpTo(MaxScans)

\* the keypress listener of urlInput: a disabled field receives no key
KeypressEnter ==
    /\ phase = "ready"
    /\ ~dom.inputDisabled
    /\ checkUrl(MaxScans)

\* checkUrl entered while the controls are disabled: the function itself
\* asks nothing about them
ReenterCheckUrl ==
    /\ phase = "ready"
    /\ dom.buttonDisabled
    /\ dom.inputDisabled
    /\ checkUrl(MaxReentrant)

(***************************************************************************)
(* checkUrl, after the await of fetch.                                     *)
(***************************************************************************)
\* catch (error): hideLoading(); showError(error.message || '...')
catchError(d, message) ==
    showError(hideLoading(d), IF message = "" THEN MSG_GENERIC ELSE message,
              "error")

\* a variant of the catch path with the controls enabled at the end of the
\* try block only, where no finally enables them after a throw
checkUrlFailsNoFinally(i, d, message, outcome, body) ==
    /\ dom' = catchError(d, message)
    /\ timers' = showErrorTimers(timers, "error")
    /\ calls' = [calls EXCEPT ![i] = IdleCall]
    /\ last' = [Step("checkUrl", outcome) EXCEPT !.locked = TRUE, !.body = body]

\* the activation leaves through catch and finally
checkUrlFails(i, d, message, outcome, body) ==
    /\ dom' = unlockControls(catchError(d, message))
    /\ timers' = showErrorTimers(timers, "error")
    /\ calls' = [calls EXCEPT ![i] = IdleCall]
    /\ last' = [Step("checkUrl", outcome) EXCEPT
                    !.locked = TRUE, !.unlocks = 1, !.body = body]

\* a variant of the success path that returns past the finally
checkUrlCompletesNoFinally(i, d) ==
    /\ dom' = d
    /\ calls' = [calls EXCEPT ![i] = IdleCall]
    /\ last' = [Step("checkUrl", "succeeded") EXCEPT !.locked = TRUE]
    /\ UNCHANGED timers

\* the activation leaves through finally alone
checkUrlCompletes(i, d) ==
    /\ dom' = unlockControls(d)
    /\ calls' = [calls EXCEPT ![i] = IdleCall]
    /\ last' = [Step("checkUrl", "succeeded") EXCEPT
                    !.locked = TRUE, !.unlocks = 1]
    /\ UNCHANGED timers

\* the server stores the scan it has classified (variant "remote")
serverRecords(history, url, verdict, timestamp) ==
    <<[url |-> url, isPhishing |-> verdict, timestamp |-> timestamp]>> \o history

Verdicts == {"true", "false"}

\* fetch resolves with a response: its status, and the verdict when the
\* server has classified the URL ("undef" when the response comes from
\* elsewhere).  In the variant "remote" the server stores the scan it
\* classifies; frontend/script.js never reads what the server stores.
FetchResolvesWith(statuses, verdicts) ==
    \E i \in Slots, ok \in statuses :
    \E verdict \in IF ok THEN verdicts ELSE {"undef"} :
        /\ calls[i].pc = "fetch"
        /\ calls' = [calls EXCEPT ![i].pc = "json", ![i].ok = ok,
                                  ![i].stored = verdict]
        /\ scans' = IF ok THEN [scans EXCEPT !.succeeded = @ \cup {calls[i].id}]
                    ELSE scans
        /\ serverHistory' =
              IF verdict # "undef" /\ variant = "remote"
              THEN serverRecords(serverHistory, calls[i].url, verdict, clock)
              ELSE serverHistory
        /\ clock' = IF serverHistory' # serverHistory THEN clock + 1 ELSE clock
        /\ last' = Step("other", "")
        /\ UNCHANGED <<variant, page, shares, phase, localStorage, dom, statistics,
                       sessionHistory, timers, nreq, fetches>>

FetchResolves == FetchResolvesWith(BOOLEAN, Verdicts \cup {"undef"})

\* a variant of the handling of a transport failure that sends the request
\* again
FetchRejectsRetries ==
    \E i \in Slots :
        /\ calls[i].pc = "fetch"
        /\ nreq' = nreq + 1
        /\ last' = Step("other", "")
        /\ UNCHANGED <<variant, page, shares, phase, localStorage, dom,
                       statistics, sessionHistory, clock, timers, calls,
                       serverHistory, fetches, scans>>

\* fetch rejects: the transport failed
FetchRejects ==
    \E i \in Slots :
        /\ calls[i].pc = "fetch"
        /\ checkUrlFails(i, dom, MSG_FETCH, "transport failure", NoBody)
        /\ UNCHANGED <<variant, page, shares, phase, localStorage, statistics,
                       sessionHistory, clock, nreq, serverHistory, fetches,
                       scans>>

\* throw new Error(errorData.detail || 'Failed to check URL'), or what
\* response.json() and the read of errorData.detail throw themselves
serviceErrorMessage(body) ==
    IF body.parse = "bad" THEN MSG_SYNTAX
    ELSE IF body.parse = "null" THEN MSG_NULL
    ELSE IF ~Truthy(body.detail) THEN MSG_FAILED
    ELSE IF body.detail = "list" THEN MSG_OBJECT
    ELSE body.detail

\* a variant of the error branch that counts the scan before it throws
checkUrlServiceErrorCounted(i, body) ==
    /\ checkUrlFails(i, dom, serviceErrorMessage(body), "service error", body)
    /\ statistics' = updateStatistics(statistics, "undef")
    /\ UNCHANGED <<variant, page, shares, phase, localStorage, sessionHistory, clock,
                   nreq, serverHistory, fetches, scans>>

\* if (!response.ok) { ... throw ... }
checkUrlServiceError(i, body) ==
    /\ checkUrlFails(i, dom, serviceErrorMessage(body), "service error", body)
    /\ UNCHANGED <<variant, page, shares, phase, localStorage, statistics,
                   sessionHistory, clock, nreq, serverHistory, fetches, scans>>

\* const data = await response.json() throws: the body is no JSON
checkUrlParseError(i) ==
    /\ checkUrlFails(i, dom, MSG_SYNTAX, "unexpected error", NoBody)
    /\ UNCHANGED <<variant, page, shares, phase, localStorage, statistics,
                   sessionHistory, clock, nreq, serverHistory, fetches, scans>>

\* data is null: displayResult shows the container and throws at data.isPhishing
checkUrlNullData(i) ==
    /\ checkUrlFails(i, displayResultContainer(hideLoading(dom)), MSG_NULL,
                     "unexpected error", NoBody)
    /\ UNCHANGED <<variant, page, shares, phase, localStorage, statistics,
                   sessionHistory, clock, nreq, serverHistory, fetches, scans>>

\* the success path of frontend/script.js: hideLoading, displayResult,
\* addToSessionHistory, updateStatistics, loadHistory, finally
checkUrlSuccessLocal(i, data) ==
    LET c == calls[i]
        v == data.isPhishing
        d1 == displayResult(hideLoading(dom), v)
        h1 == addToSessionHistory(sessionHistory, c.url, v, clock)
        d2 == displayHistory(d1, h1)
        shown == [scans EXCEPT !.resultScan = c.id, !.resultUrl = c.url]
    IN  /\ sessionHistory' = h1
        /\ clock' = clock + 1
        /\ IF displayHistoryThrows(h1)
           THEN /\ checkUrlFails(i, d1, MSG_DOM, "unexpected error", NoBody)
                /\ scans' = [shown EXCEPT !.recorded = @ \cup {c.id}]
                /\ UNCHANGED statistics
           ELSE /\ statistics' = updateStatistics(statistics, v)
                /\ scans' = [shown EXCEPT !.recorded = @ \cup {c.id},
                                          !.counted = @ \cup {c.id}]
                /\ IF updateStatisticsThrows
                   THEN checkUrlFails(i, d2, MSG_DOM, "unexpected error", NoBody)
                   ELSE checkUrlCompletes(i, d2)
        /\ UNCHANGED <<variant, page, shares, phase, localStorage, nreq, serverHistory,
                       fetches>>

\* the success path of the sibling file: hideLoading, displayResult,
\* updateStatistics, then loadHistory, which awaits fetch(HISTORY_URL)
checkUrlSuccessRemote(i, data) ==
    LET c == calls[i]
        v == data.isPhishing
        d1 == displayResult(hideLoading(dom), v)
    IN  /\ statistics' = updateStatistics(statistics, v)
        /\ scans' = [scans EXCEPT !.resultScan = c.id, !.resultUrl = c.url,
                                  !.counted = @ \cup {c.id}]
        /\ IF updateStatisticsThrows
           THEN /\ checkUrlFails(i, d1, MSG_DOM, "unexpected error", NoBody)
                /\ UNCHANGED fetches
           ELSE /\ dom' = d1
                /\ calls' = [calls EXCEPT ![i].pc = "history"]
                /\ fetches' = Append(fetches, HistoryRequest(i, c.id))
                /\ last' = [Step("checkUrl", "awaits history") EXCEPT
                                !.locked = TRUE]
                /\ UNCHANGED timers
        /\ UNCHANGED <<variant, page, shares, phase, localStorage, sessionHistory,
                       clock, nreq, serverHistory>>

\* the bodies a response may carry: any body with an error status or from a
\* server that stored nothing, the verdict with the scan the server stored
BodiesOf(c) ==
    IF ~c.ok THEN ErrorBodies
    ELSE IF c.stored = "undef" THEN {b \in OkBodies : b.isPhishing = "undef"}
    ELSE {Body("object", c.stored, "undef")}

\* response.json() settles and checkUrl runs on
JsonResolves ==
    \E i \in Slots :
    \E body \in BodiesOf(calls[i]) :
        /\ calls[i].pc = "json"
        /\ IF ~calls[i].ok THEN checkUrlServiceError(i, body)
           ELSE IF body.parse = "bad" THEN checkUrlParseError(i)
           ELSE IF body.parse = "null" THEN checkUrlNullData(i)
           ELSE IF variant = "local" THEN checkUrlSuccessLocal(i, body)
           ELSE checkUrlSuccessRemote(i, body)

(***************************************************************************)
(* loadHistory of the sibling file.                                        *)
(***************************************************************************)
Remove(seq, k) == SubSeq(seq, 1, k - 1) \o SubSeq(seq, k + 1, Len(seq))

\* the server answers a history request with the history it has then, or
\* with a failure
ServerAnswersHistory ==
    \E k \in 1..Len(fetches), ok \in BOOLEAN :
        /\ fetches[k].state = "sent"
        /\ fetches' = [fetches EXCEPT ![k].state = "answered", ![k].ok = ok,
                          ![k].history = IF ok THEN serverHistory ELSE <<>>]
        /\ last' = Step("other", "")
        /\ UNCHANGED <<variant, page, shares, phase, localStorage, dom, statistics,
                       sessionHistory, clock, timers, calls, nreq,
                       serverHistory, scans>>

\* loadHistory after its await: slice, displayHistory; its catch swallows
\* every failure
loadHistoryShows(d, f) ==
    IF f.ok /\ ~displayHistoryThrows(recentHistory(f.history))
    THEN displayHistory(d, recentHistory(f.history))
    ELSE d

\* the answer arrives: loadHistory finishes, and the checkUrl that awaits it
\* leaves through finally
HistoryArrives ==
    \E k \in 1..Len(fetches) :
        LET f == fetches[k]
            d == loadHistoryShows(dom, f)
            shows == /\ f.ok
                     /\ ~displayHistoryThrows(recentHistory(f.history))
                     /\ f.owner # 0
                     /\ calls[f.owner].stored # "undef"
        IN  /\ f.state = "answered"
            /\ fetches' = Remove(fetches, k)
            /\ scans' = IF shows
                        THEN [scans EXCEPT !.recorded = @ \cup {f.scan}]
                        ELSE scans
            /\ IF f.owner = 0
               THEN /\ dom' = d
                    /\ last' = Step("other", "")
                    /\ UNCHANGED <<calls, timers>>
               ELSE checkUrlCompletes(f.owner, d)
            /\ UNCHANGED <<variant, page, shares, phase, localStorage, statistics,
                           sessionHistory, clock, nreq, serverHistory>>

(***************************************************************************)
(* The other handlers.                                                     *)
(***************************************************************************)
\* clearHistory of frontend/script.js and of the sibling file, which has no
\* sessionHistory to empty
\* (whether the button can be clicked while the history is hidden is up to the
\* markup; the handler does not ask)
clearHistory ==
    /\ sessionHistory' = <<>>
    /\ dom' = showError([dom EXCEPT !.historyList = <<>>, !.historyShown = FALSE],
                        MSG_CLEARED, "success")
    /\ timers' = showErrorTimers(timers, "success")

\* a variant of the handler in which clearing the history resets the counters
ClickClearHistoryResets ==
    /\ phase = "ready"
    /\ Len(timers) < MaxTimers
    /\ clearHistory
    /\ statistics' = NoStatistics
    /\ last' = Step("clearHistory", "")
    /\ UNCHANGED <<variant, page, shares, phase, localStorage, clock,
                   calls, nreq, serverHistory, fetches, scans>>

ClickClearHistory ==
    /\ phase = "ready"
    /\ Len(timers) < MaxTimers
    /\ clearHistory
    /\ last' = Step("clearHistory", "")
    /\ UNCHANGED <<variant, page, shares, phase, localStorage, statistics, clock,
                   calls, nreq, serverHistory, fetches, scans>>

\* a variant of the timer callback that hides nothing
TimerFiresIdle ==
    /\ timers # <<>>
    /\ timers' = Tail(timers)
    /\ last' = Step("timer", "idle")
    /\ UNCHANGED <<variant, page, shares, phase, localStorage, dom, statistics,
                   sessionHistory, clock, calls, nreq, serverHistory, fetches,
                   scans>>

\* the callback of setTimeout(() => { hideError(); }, 3000): equal delays
\* expire in the order they were set
TimerFires ==
    /\ timers # <<>>
    /\ timers' = Tail(timers)
    /\ dom' = hideError(dom)
    /\ last' = Step("timer", IF Head(timers).current THEN "current"
                              ELSE IF dom.error THEN "stale, hid a newer message"
                              ELSE "stale")
    /\ UNCHANGED <<variant, page, shares, phase, localStorage, statistics,
                   sessionHistory, clock, calls, nreq, serverHistory, fetches,
                   scans>>

\* closeAnnouncement: hide the banner, then persist the flag
closeAnnouncement ==
    /\ dom' = [dom EXCEPT !.bannerHidden = TRUE]
    /\ localStorage' = IF page.storage
                       THEN [localStorage EXCEPT !.announcementClosed = TRUE]
                       ELSE localStorage

ClickCloseBanner ==
    /\ phase = "ready"
    /\ closeAnnouncement
    /\ last' = Step("other", "")
    /\ UNCHANGED <<variant, page, shares, phase, statistics, sessionHistory, clock,
                   timers, calls, nreq, serverHistory, fetches, scans>>

\* reportUrl: the report page is opened for what the field holds now; the
\* button belongs to the result, and is clickable while the result is shown
reportUrl ==
    LET url == Trim(dom.inputValue)
    IN  last' = IF url # <<>>
                THEN [Step("reportUrl", "opened") EXCEPT !.url = url]
                ELSE Step("reportUrl", "nothing opened")

ClickReportButton ==
    /\ phase = "ready"
    /\ dom.result
    /\ reportUrl
    /\ UNCHANGED <<variant, page, shares, phase, localStorage, dom, statistics,
                   sessionHistory, clock, timers, calls, nreq, serverHistory,
                   fetches, scans>>

\* the click handler of shareResult up to   await takeScreenshot()  ; the
\* button belongs to the result as well
ClickShareResult ==
    /\ phase = "ready"
    /\ dom.result
    /\ ~dom.overlay
    /\ shares < MaxShares
    /\ shares' = shares + 1
    /\ dom' = showLoading(dom)
    /\ last' = Step("share", "awaits screenshot")
    /\ UNCHANGED <<variant, page, phase, localStorage, statistics,
                   sessionHistory, clock, timers, calls, nreq, serverHistory,
                   fetches, scans>>

\* takeScreenshot settles with the image, or with null when html2canvas
\* failed or was never loaded; the handler runs on: hideLoading(), then the
\* overlay or showError('Failed to generate screenshot')
ScreenshotSettles ==
    \E taken \in BOOLEAN :
        /\ shares > 0
        /\ shares' = shares - 1
        /\ dom' = IF taken
                  THEN [hideLoading(dom) EXCEPT !.overlay = TRUE]
                  ELSE showError(hideLoading(dom), MSG_SCREENSHOT, "error")
        /\ timers' = IF taken THEN timers ELSE showErrorTimers(timers, "error")
        /\ last' = Step("share", IF taken THEN "overlay" ELSE "no screenshot")
        /\ UNCHANGED <<variant, page, phase, localStorage, statistics,
                       sessionHistory, clock, calls, nreq, serverHistory,
                       fetches, scans>>

\* the click handler of closeScreenshot
CloseScreenshot ==
    /\ phase = "ready"
    /\ dom.overlay
    /\ dom' = [dom EXCEPT !.overlay = FALSE]
    /\ last' = Step("other", "")
    /\ UNCHANGED <<variant, page, shares, phase, localStorage, statistics,
                   sessionHistory, clock, timers, calls, nreq, serverHistory,
                   fetches, scans>>

\* the statistics section scrolls into view.  initializeStats, which would
\* read the flag statsViewed and observe the section, is called nowhere: no
\* observer exists, and nothing runs
StatsSectionVisible ==
    /\ phase = "ready"
    /\ last' = Step("statsVisible", "")
    /\ UNCHANGED <<variant, page, shares, phase, localStorage, dom, statistics,
                   sessionHistory, clock, timers, calls, nreq, serverHistory,
                   fetches, scans>>

\* the user loads the page again: the script starts over on fresh markup;
\* what was pending (requests, timers) goes with the old document, and only
\* the storage stays
Reload ==
    /\ phase = "ready"
    /\ phase' = "loading"
    /\ dom' = Markup(FALSE, FALSE, FALSE, FALSE)
    /\ statistics' = NoStatistics
    /\ sessionHistory' = <<>>
    /\ clock' = 1
    /\ timers' = <<>>
    /\ calls' = NoCalls
    /\ nreq' = 0
    /\ fetches' = <<>>
    /\ shares' = 0
    /\ scans' = NoScans
    /\ last' = Step("load", "")
    /\ UNCHANGED <<variant, page, localStorage, serverHistory>>

(***************************************************************************)
(* Specifications.                                                         *)
(***************************************************************************)
Next ==
    \/ initializePage
    \/ TypeUrl
    \/ ClickCheckButton
    \/ KeypressEnter
    \/ FetchResolves
    \/ FetchRejects
    \/ JsonResolves
    \/ ServerAnswersHistory
    \/ HistoryArrives
    \/ ClickClearHistory
    \/ TimerFires
    \/ ClickCloseBanner
    \/ ClickReportButton

\* the program on the page it was written for, driven by its user
Spec == Init /\ [][Next]_vars

\* frontend/script.js with checkUrl also entered while an activation is
\* suspended
InitReentrant == Init /\ variant = "local"

NextReentrant ==
    \/ initializePage
    \/ TypeUrl
    \/ ClickCheckButton
    \/ KeypressEnter
    \/ ReenterCheckUrl
    \/ FetchResolves
    \/ FetchRejects
    \/ JsonResolves
    \/ ClickClearHistory
    \/ TimerFires
    \/ ClickCloseBanner

SpecReentrant == InitReentrant /\ [][NextReentrant]_vars

\* the program on any page: elements may be missing, the storage barred
InitAnyPage == InitWith(Pages)

\* the initialization, the checks and the banner; the handlers that only
\* show messages or open the report page are left to Spec
NextAnyPage ==
    \/ initializePage
    \/ TypeUrl
    \/ ClickCheckButton
    \/ KeypressEnter
    \/ FetchResolves
    \/ FetchRejects
    \/ JsonResolves
    \/ ServerAnswersHistory
    \/ HistoryArrives
    \/ ClickCloseBanner

SpecAnyPage == InitAnyPage /\ [][NextAnyPage]_vars


\* frontend/script.js on scans that all succeed, as many as fill the history
\* and overflow it
InitHistory ==
    /\ InitWith({CompletePage})
    /\ variant = "local"
    /\ ~localStorage.announcementClosed
    /\ dom = Markup(FALSE, FALSE, FALSE, FALSE)

NextHistory ==
    \/ initializePage
    \/ TypeUrlFrom({<<"https", ":", "/", "/", "x">>})
    \/ ClickCheckButtonUpTo(MaxPushes)
    \/ FetchResolvesWith({TRUE}, Verdicts)
    \/ JsonResolves

SpecHistory == InitHistory /\ [][NextHistory]_vars

\* the validation of frontend/script.js on every input of up to MaxLen tokens
InitValidate == InitHistory

\* the first input typed after the load
TypeFirstUrl ==
    /\ last.op = "initializePage"
    /\ TypeUrlFrom(InputsUpTo(MaxLen))

NextValidate ==
    \/ initializePage
    \/ TypeFirstUrl
    \/ ClickCheckButton

SpecValidate == InitValidate /\ [][NextValidate]_vars

\* frontend/script.js over several loads of the page, the banner not yet
\* closed at the first
InitReload == InitHistory

NextReload ==
    \/ initializePage
    \/ TypeUrl
    \/ ClickCheckButton
    \/ FetchResolves
    \/ FetchRejects
    \/ JsonResolves
    \/ ClickClearHistory
    \/ TimerFires
    \/ ClickCloseBanner
    \/ Reload
    \/ StatsSectionVisible

SpecReload == InitReload /\ [][NextReload]_vars

\* the program with results shared as screenshots between the scans
InitShare ==
    /\ Init
    /\ ~localStorage.announcementClosed
    /\ dom = Markup(FALSE, FALSE, FALSE, FALSE)

NextShare ==
    \/ initializePage
    \/ TypeUrl
    \/ ClickCheckButtonUpTo(MaxShareScans)
    \/ FetchResolves
    \/ FetchRejects
    \/ JsonResolves
    \/ ServerAnswersHistory
    \/ HistoryArrives
    \/ ClickShareResult
    \/ ScreenshotSettles
    \/ CloseScreenshot

SpecShare == InitShare /\ [][NextShare]_vars

\* the program where every request settles and every timer expires: the
\* transport answers or fails each fetch, a body that arrives is parsed, and
\* a delay that was set runs out
FetchSettles == FetchResolves \/ FetchRejects

InitFair ==
    /\ Init
    /\ ~localStorage.announcementClosed
    /\ dom = Markup(FALSE, FALSE, FALSE, FALSE)

NextFair ==
    \/ initializePage
    \/ TypeUrl
    \/ ClickCheckButton
    \/ KeypressEnter
    \/ FetchSettles
    \/ JsonResolves
    \/ ServerAnswersHistory
    \/ HistoryArrives

SpecFair ==
    /\ InitFair
    /\ [][NextFair]_vars
    /\ WF_vars(FetchSettles)
    /\ WF_vars(JsonResolves)
    /\ WF_vars(ServerAnswersHistory)
    /\ WF_vars(HistoryArrives)

\* frontend/script.js with its messages and their timers
InitTimers == InitFair /\ variant = "local"

NextTimers ==
    \/ initializePage
    \/ TypeUrl
    \/ ClickCheckButton
    \/ FetchSettles
    \/ JsonResolves
    \/ ClickClearHistory
    \/ TimerFires

SpecTimers ==
    /\ InitTimers
    /\ [][NextTimers]_vars
    /\ WF_vars(FetchSettles)
    /\ WF_vars(JsonResolves)
    /\ WF_vars(TimerFires)

(***************************************************************************)
(* Claims.                                                                 *)
(***************************************************************************)
Idle == \A i \in Slots : calls[i].pc = "idle"

Returned == {"transport failure", "service error", "unexpected error",
             "succeeded"}

Min(a, b) == IF a < b THEN a ELSE b

\* C1: at most one classification request is outstanding at any time, also
\* when checkUrl is entered while an earlier activation awaits its response:
\* the second activation dispatches nothing.
C1_OneRequestOutstanding == Cardinality(InFlight) <= 1

\* C2: an activation of checkUrl that locked the controls has unlocked them
\* exactly once when it returns, whatever the exit (success, error status,
\* transport failure, a throw after the response): the input and the button
\* are enabled and the button shows its default label.
C2_UnlockedOnEveryExit ==
    (last.op = "checkUrl" /\ last.outcome \in Returned /\ last.locked) =>
        /\ last.unlocks = 1
        /\ ~dom.inputDisabled
        /\ ~dom.buttonDisabled
        /\ dom.buttonLabel = "default"

C2_Witness ==
    /\ last.op = "checkUrl"
    /\ last.outcome = "unexpected error"
    /\ last.locked
    /\ ~page.statsElements
    /\ ~dom.buttonDisabled

\* C3: whenever the verdict of a scan is visible, the statistics and the
\* history already include that scan.
C3_VerdictAfterUpdates ==
    (dom.result /\ scans.resultScan # 0) =>
        /\ scans.resultScan \in scans.counted
        /\ scans.resultScan \in scans.recorded

\* C4: once the page is initialized and no check is under way, totalScans is
\* the number of successful classification responses (so 0 before the first).
C4_TotalScansCountsResponses ==
    (phase = "ready" /\ Idle) =>
        statistics.totalScans = Cardinality(scans.succeeded)

\* C5: the hide scheduled for a success message never hides a message shown
\* after it: showing a message cancels the pending timer.
C5_StaleTimerHidesNothing ==
    ~(last.op = "timer" /\ last.outcome = "stale, hid a newer message")

\* C6: the history never holds more than 10 records and holds the most recent
\* scans, newest first: as many as were made up to 10, each one scan older
\* than the one before it.
C6_HistoryNewestTen ==
    /\ Len(sessionHistory) <= HISTORY_LIMIT
    /\ Len(sessionHistory) = Min(HISTORY_LIMIT, clock - 1)
    /\ \A k \in 1..Len(sessionHistory) :
          sessionHistory[k].timestamp = clock - k

C6_Witness ==
    /\ clock - 1 = HISTORY_LIMIT + 1
    /\ Len(sessionHistory) = HISTORY_LIMIT
    /\ sessionHistory[HISTORY_LIMIT].timestamp = 2

\* C7: a checkUrl whose trimmed input is empty or no valid URL dispatches no
\* request, leaves the input and the button as they are, enabled, and only
\* shows the validation message.
C7_InvalidInputStaysLocal ==
    [][ LET url == Trim(dom.inputValue)
        IN  ( /\ last'.op = "checkUrl"
              /\ last'.outcome \in {"invalid", "dispatched"}
              /\ (url = <<>> \/ ~isValidUrl(url)) )
            => /\ nreq' = nreq
               /\ calls' = calls
               /\ ~dom'.inputDisabled
               /\ ~dom'.buttonDisabled
               /\ dom' = showError(dom, IF url = <<>> THEN MSG_EMPTY
                                        ELSE MSG_INVALID, "error")
      ]_vars

C7_Witness ==
    /\ last.op = "checkUrl"
    /\ last.outcome = "invalid"
    /\ dom.inputValue = <<"x", "/", "y">>
    /\ dom.errorText = MSG_INVALID
    /\ nreq = 0

\* C8: no step of a check that fails (validation error, transport failure,
\* error status) changes the statistics or the history.
C8_FailedCheckKeepsStatisticsAndHistory ==
    [][ ( /\ last'.op = "checkUrl"
          /\ last'.outcome \in {"invalid", "dispatched", "transport failure",
                                "service error"} )
        => /\ statistics' = statistics
           /\ sessionHistory' = sessionHistory
           /\ dom'.historyList = dom.historyList
           /\ dom'.historyShown = dom.historyShown
      ]_vars

C8_Witness ==
    /\ last.op = "checkUrl"
    /\ last.outcome = "service error"
    /\ dom.errorText = "rate limited"
    /\ ~dom.inputDisabled

\* C9: after an error status the message shown is the detail of the body when
\* the body carries a textual one, and the generic message otherwise, also
\* for a body without detail and for a body that does not parse.
C9_ServiceErrorMessage ==
    (last.op = "checkUrl" /\ last.outcome = "service error") =>
        dom.errorText =
            IF /\ last.body.parse = "object"
               /\ last.body.detail \notin {"undef", "", "list"}
            THEN last.body.detail
            ELSE MSG_FAILED

\* C10: a sub-task of the initialization that fails does not keep the others
\* from running: the banner is hidden after initializePage whenever the
\* persisted flag is set and can be read.
C10_BannerHiddenAfterInit ==
    (last.op = "initializePage" /\ page.storage /\ localStorage.announcementClosed)
        => dom.bannerHidden

\* C11: an error message stays until a new check or a dismissal hides it: no
\* expiry of a timer hides a message shown in the error style.
C11_NoTimerHidesAnError ==
    [][ ~( /\ last'.op = "timer"
           /\ dom.error
           /\ dom.errorType = "error"
           /\ ~dom'.error ) ]_vars

\* C12: the step that completes a classification of URL u with verdict v
\* counts one scan more, one phishing URL more when v is true and one safe
\* URL more when it is false, the other counter unchanged; it shows the
\* verdict that matches v, and in frontend/script.js it puts the record
\* (u, v) at the head of the history.
C12_SuccessfulClassification ==
    [][ \A i \in Slots :
          ( /\ calls[i].pc = "json"
            /\ calls[i].ok
            /\ calls[i].stored \in Verdicts
            /\ calls'[i].pc # "json" )
          => LET u == calls[i].url
                 v == calls[i].stored
             IN  /\ statistics'.totalScans = statistics.totalScans + 1
                 /\ statistics'.phishingUrls =
                       statistics.phishingUrls + (IF v = "true" THEN 1 ELSE 0)
                 /\ statistics'.safeUrls =
                       statistics.safeUrls + (IF v = "true" THEN 0 ELSE 1)
                 /\ dom'.result
                 /\ dom'.resultTitle = (IF v = "true" THEN "Phishing URL Detected!"
                                        ELSE "Safe URL")
                 /\ variant = "local" =>
                       /\ sessionHistory' # <<>>
                       /\ sessionHistory'[1].url = u
                       /\ sessionHistory'[1].isPhishing = v
      ]_vars

C12_Witness ==
    /\ last.op = "checkUrl"
    /\ last.outcome = "succeeded"
    /\ variant = "local"
    /\ dom.result
    /\ dom.resultTitle = "Phishing URL Detected!"
    /\ statistics.phishingUrls = 1
    /\ sessionHistory # <<>>
    /\ sessionHistory[1].isPhishing = "true"
    /\ sessionHistory[1].url = <<"https", ":", "/", "/", "y">>

\* C13: at every point where no update is half done, totalScans is the sum of
\* safeUrls and phishingUrls: after the initialization, after every scan and
\* after clearHistory.
C13_TotalIsSafePlusPhishing ==
    statistics.totalScans = statistics.safeUrls + statistics.phishingUrls

C13_Witness ==
    /\ statistics.totalScans = 2
    /\ statistics.phishingUrls = 1
    /\ statistics.safeUrls = 1
    /\ dom.error
    /\ dom.errorText = MSG_CLEARED

\* C14: no step decreases totalScans, safeUrls or phishingUrls, and
\* clearHistory leaves the three as they are.
C14_StatisticsNeverDecrease ==
    [][ /\ statistics'.totalScans >= statistics.totalScans
        /\ statistics'.safeUrls >= statistics.safeUrls
        /\ statistics'.phishingUrls >= statistics.phishingUrls
        /\ last'.op = "clearHistory" => statistics' = statistics
      ]_vars

C14_Witness ==
    /\ last.op = "clearHistory"
    /\ statistics.totalScans = 2
    /\ statistics.safeUrls = 2
    /\ sessionHistory = <<>>
    /\ ~dom.historyShown
    /\ dom.result

\* C15: a response with a success status whose body carries no boolean
\* isPhishing (null, or an object without the member) ends the check as a
\* failure: an error message is shown, no verdict is shown, and the step
\* changes neither the statistics nor the history.
C15_MalformedSuccessFails ==
    [][ \A i \in Slots :
          ( /\ calls[i].pc = "json"
            /\ calls[i].ok
            /\ calls[i].stored = "undef"
            /\ calls'[i].pc # "json" )
          => /\ dom'.error
             /\ dom'.errorType = "error"
             /\ ~dom'.result
             /\ statistics' = statistics
             /\ sessionHistory' = sessionHistory
      ]_vars

\* the grammar of an accepted input: a scheme, ":", "//" and an authority
HasSchemeAndAuthority(url) ==
    LET colon == IndexOf(url, {":", "/", " "}, 1)
    IN  /\ colon > 1
        /\ colon + 3 <= Len(url)
        /\ url[colon] = ":"
        /\ url[colon + 1] = "/"
        /\ url[colon + 2] = "/"
        /\ url[colon + 3] \notin {":", "/", " "}

\* C16: checkUrl classifies an input by its trimmed value: an empty one gets
\* the message for an empty input, one with a scheme and an authority is
\* accepted and dispatched, and every other one gets the message for an
\* invalid URL.
C16_ValidateClassifies ==
    last.op = "checkUrl" =>
        LET url == Trim(dom.inputValue)
        IN  IF url = <<>>
            THEN last.outcome = "invalid" /\ dom.errorText = MSG_EMPTY
            ELSE IF HasSchemeAndAuthority(url)
            THEN last.outcome = "dispatched"
            ELSE last.outcome = "invalid" /\ dom.errorText = MSG_INVALID

\* C17: a classification request is sent only by the step in which a click
\* or a key enters checkUrl, one request per entry: no step that handles a
\* response, an error status or a transport failure sends another.
C17_OneRequestPerCheck ==
    [][ nreq' # nreq =>
          /\ nreq' = nreq + 1
          /\ last'.op = "checkUrl"
          /\ last'.outcome = "dispatched"
          /\ Cardinality({i \in Slots : calls'[i].pc = "fetch"}) =
                Cardinality({i \in Slots : calls[i].pc = "fetch"}) + 1
      ]_vars

C17_Witness ==
    /\ last.op = "checkUrl"
    /\ last.outcome = "transport failure"
    /\ dom.errorText = MSG_FETCH
    /\ nreq = 1
    /\ Idle

\* C18: the stored flag announcementClosed goes from false to true only: no
\* step resets it, and on every load of the page after the banner was closed
\* the initialization hides the banner.
C18_BannerFlagOneWay ==
    /\ [][localStorage.announcementClosed => localStorage'.announcementClosed]_vars
    /\ []((phase = "ready" /\ localStorage.announcementClosed) => dom.bannerHidden)

C18_Witness ==
    /\ last.op = "initializePage"
    /\ localStorage.announcementClosed
    /\ dom.bannerHidden

\* C19: a click on the report button while the verdict of a scan is shown
\* opens the report page for the URL of that scan, whatever the field holds
\* by then.
C19_ReportsTheCheckedUrl ==
    (last.op = "reportUrl" /\ scans.resultScan # 0) =>
        /\ last.outcome = "opened"
        /\ last.url = scans.resultUrl

\* C20: while a classification request is in flight the input and the button
\* are disabled and the loading indicator is shown, and while no activation
\* of checkUrl is under way the controls are enabled: no other handler hides
\* the indicator or enables the controls in between.
C20_LockedAndLoadingWhileInFlight ==
    /\ InFlight # {} =>
          (dom.inputDisabled /\ dom.buttonDisabled /\ dom.loading)
    /\ (phase = "ready" /\ Idle) =>
          (~dom.inputDisabled /\ ~dom.buttonDisabled)

\* C21: if every request that was sent settles, a check under way leads to
\* the state in which no activation of checkUrl is suspended, the input and
\* the button are enabled and the loading indicator is hidden.
C21_CheckReturnsToIdle ==
    ~Idle ~> ( /\ Idle
               /\ ~dom.inputDisabled
               /\ ~dom.buttonDisabled
               /\ dom.buttonLabel = "default"
               /\ ~dom.loading )

C21_Witness ==
    /\ variant = "remote"
    /\ last.op = "checkUrl"
    /\ last.outcome = "succeeded"
    /\ Idle
    /\ ~dom.inputDisabled
    /\ ~dom.loading
    /\ dom.result

\* C22: a success message on screen has its own timer pending; when that
\* timer expires the message is hidden; and a success message does not stay
\* for ever: it is hidden by a timer or replaced by a later message.
C22_SuccessMessageExpires ==
    /\ []( (dom.error /\ dom.errorType = "success")
             => (timers # <<>> /\ timers[Len(timers)].current) )
    /\ [][ (last'.op = "timer" /\ last'.outcome = "current") => ~dom'.error ]_vars
    /\ ( (dom.error /\ dom.errorType = "success")
           ~> ~(dom.error /\ dom.errorType = "success") )

C22_Witness ==
    /\ last.op = "timer"
    /\ last.outcome = "current"
    /\ ~dom.error
    /\ timers = <<>>
    /\ ~dom.historyShown

\* C23: in frontend/script.js, once the page is initialized, the history
\* container is shown exactly when sessionHistory holds a record, and then
\* it lists the records of sessionHistory.
C23_HistoryShownIffNonEmpty ==
    (phase = "ready" /\ variant = "local") =>
        /\ dom.historyShown <=> sessionHistory # <<>>
        /\ dom.historyShown => dom.historyList = sessionHistory

C23_Witness ==
    /\ variant = "local"
    /\ last.op = "checkUrl"
    /\ last.outcome = "invalid"
    /\ statistics.totalScans = 2
    /\ sessionHistory = <<>>
    /\ ~dom.historyShown

\* C24: once the statistics section has become visible, the stored flag
\* statsViewed is true, so that the animation of the statistics plays on no
\* later load of the page.
C24_StatsViewedAfterFirstView ==
    last.op = "statsVisible" => localStorage.statsViewed

\* C25: once the page is initialized, at most one of the loading indicator,
\* the result and the message is visible.
C25_OneViewAtATime ==
    phase = "ready" =>
        /\ ~(dom.result /\ dom.error)
        /\ ~(dom.loading /\ dom.result)
        /\ ~(dom.loading /\ dom.error)

\* C26: after clearHistory the history on screen stays empty until a scan
\* completes: when the history is cleared while no check is under way, the
\* next step does not bring a history back on screen, since whatever it
\* showed would be records from before the clear.
C26_ClearedHistoryStaysEmpty ==
    [][ (last.op = "clearHistory" /\ Idle) => ~dom'.historyShown ]_vars

\* C27: the history on screen comes from the history request issued last
\* among those that completed: the response to a request issued before one
\* whose response is already displayed changes nothing on screen.
C27_OlderResponseChangesNothing ==
    [][ \A k \in 1..Len(fetches) :
          ( /\ fetches[k].state = "answered"
            /\ fetches[k].ok
            /\ fetches' = Remove(fetches, k)
            /\ \E s \in scans.recorded : s > fetches[k].scan )
          => /\ dom'.historyList = dom.historyList
             /\ dom'.historyShown = dom.historyShown
      ]_vars

\* C28: in frontend/script.js, when no check is under way the scans that were
\* inserted into the history are the scans that were counted in the
\* statistics, also after a check that threw part-way.
C28_HistoryAndStatisticsTogether ==
    (variant = "local" /\ Idle) => scans.recorded = scans.counted

=============================================================================
